---- MODULE Spec2Model ----
(***************************************************************************)
(* Model of main.py: the in-memory sliding-window rate limiter            *)
(* (_limiter / dependency), the auth dependency (get_api_key) and the     *)
(* request dispatch of the routes /health, /yt_search, /info, /stream and *)
(* /download.                                                             *)
(***************************************************************************)
EXTENDS Integers, Sequences, FiniteSets, Bags, TLC

(* ---------------------------------------------------------------------- *)
(* Bounds                                                                 *)
(* ---------------------------------------------------------------------- *)
\* largest value of the monotonic clock
MaxClock == 2
\* number of limiter calls in the limiter specification
MaxCalls == 4
\* largest configured max_requests / window_seconds drawn at start-up
MaxCfgRequests == 2
MaxCfgWindow == 1

\* number of requests the dispatch specification lets in
MaxInFlight == 2

Requests == 1..MaxCalls

\* request.client.host, or "unknown" when request.client is None
IPs == {"1.2.3.4", "unknown"}

\* the callers of the dispatch specification
Callers == {"1.2.3.4"}

\* the routes of the application
Paths == {"/health", "/yt_search", "/info", "/stream", "/download"}

\* the routes exercised by the limiter specification: one per limiter instance
LimiterPaths == {"/stream", "/download"}

\* the collaborators a handler invokes: the YouTube Data API, the yt-dlp
\* subprocess, the Telegram sendAudio upload and the Mongo insert
Collaborators == {"youtube_api", "yt_dlp", "telegram", "mongo"}

\* Header values are sequences of pieces.  None is the absent header.
None == <<"None">>

VARIABLES
    clock,               \* time.monotonic()
    RL_WINDOW_SECONDS,   \* environment configuration, read once at import
    RL_MAX_REQUESTS,
    RL_DOWNLOAD_WINDOW,
    RL_DOWNLOAD_MAX,
    _buckets,            \* Dict[(ip, path) -> deque of timestamps]
    pc,                  \* position of each request
    ip,                  \* request.client.host of each request
    path,                \* request.url.path of each request
    now,                 \* the local `now` of dependency()
    status,              \* status code of the response, 0 while none
    hist,                \* history: per key, the bag of <<now, admitted>> of
                         \* the calls that left the locked section
    headers,             \* the api-key, x-api-key and Authorization headers
    auth,                \* what get_api_key did with them
    cred,                \* per request: what get_api_key does with its headers
    _rl,                 \* per request: what the limiter dependency did
    detail,              \* per request: the detail of the error response
    url,                 \* per request: the url the handler works on
    temp_dir,            \* per request: the directory made by mkdtemp
    files,               \* per request: number of files in temp_dir
    file_size,           \* per request: os.path.getsize(file_path)
    used,                \* per request: how often each collaborator was invoked
    inserted,            \* per request: whether its record is in the collection
    bg,                  \* per request: whether the cleanup task is queued
    search_res,          \* per request: the list youtube_search returned, None
                         \* while it has not returned
    calls,               \* per request: the external calls made, in order, each
                         \* with how it ended
    diag,                \* per request: the diagnostic text of the failure that
                         \* was logged (stderr/stdout, r.text, the exception)
    body                 \* per request: the content of the success response

cfgVars == <<RL_WINDOW_SECONDS, RL_MAX_REQUESTS, RL_DOWNLOAD_WINDOW, RL_DOWNLOAD_MAX>>
reqVars == <<pc, ip, path, now, status>>
authVars == <<headers, auth>>
hdlVars == <<cred, _rl, detail, url, temp_dir, files, file_size, used, inserted, bg,
             search_res, calls, diag, body>>
vars == <<clock, cfgVars, _buckets, reqVars, hist, authVars, hdlVars>>

(* ---------------------------------------------------------------------- *)
(* Rate limiter                                                           *)
(* ---------------------------------------------------------------------- *)

\* mutant of BucketKey: the bucket keyed by the caller address alone
BucketKeyIpOnly(i, p) == <<i, "/">>

\* key = (ip, request.url.path)
BucketKey(i, p) == <<i, p>>

\* rate_limit_default = _limiter(RL_MAX_REQUESTS, RL_WINDOW_SECONDS)
\* rate_limit_download = _limiter(RL_DOWNLOAD_MAX, RL_DOWNLOAD_WINDOW)
\* /download depends on rate_limit_download, every other route on
\* rate_limit_default
max_requests(p) == IF p = "/download" THEN RL_DOWNLOAD_MAX ELSE RL_MAX_REQUESTS
window_seconds(p) == IF p = "/download" THEN RL_DOWNLOAD_WINDOW ELSE RL_WINDOW_SECONDS

\* mutant of DropOld: a timestamp exactly window_seconds old is dropped too
RECURSIVE DropOldInclusive(_, _)
DropOldInclusive(q, cutoff) ==
    IF q # <<>> /\ Head(q) <= cutoff THEN DropOldInclusive(Tail(q), cutoff) ELSE q

\* mutant of DropOld: a timestamp is dropped one second late
RECURSIVE DropOldLate(_, _)
DropOldLate(q, cutoff) ==
    IF q # <<>> /\ Head(q) + 1 < cutoff THEN DropOldLate(Tail(q), cutoff) ELSE q

\* while q and q[0] < cutoff: q.popleft()
RECURSIVE DropOld(_, _)
DropOld(q, cutoff) ==
    IF q # <<>> /\ Head(q) < cutoff THEN DropOld(Tail(q), cutoff) ELSE q

\* mutant of Exceeded: one request more than max_requests is let through
ExceededStrict(q, maxreq) == Len(q) > maxreq

\* if len(q) >= max_requests: raise HTTPException(429)
Exceeded(q, maxreq) == Len(q) >= maxreq

\* q = _buckets.setdefault(key, deque())
Bucket(tbl, key) == IF key \in DOMAIN tbl THEN tbl[key] ELSE <<>>

\* mutant of SetBucket: the keys whose newest timestamp is older than every
\* timestamp of q are purged from the table
SetBucketPurging(tbl, key, q) ==
    LET stale == {k \in DOMAIN tbl \ {key} :
                     /\ q # << >>
                     /\ \A a \in DOMAIN tbl[k] : tbl[k][a] < Head(q)}
    IN  [k \in (DOMAIN tbl \ stale) \cup {key} |-> IF k = key THEN q ELSE tbl[k]]

\* the table with the bucket of key set to q (created when absent)
SetBucket(tbl, key, q) ==
    [k \in DOMAIN tbl \cup {key} |-> IF k = key THEN q ELSE tbl[k]]

\* the body of `with _lock:` for a request of (i, p) that read the clock at t:
\* the new table and whether the request is admitted
LockedSection(tbl, i, p, t) ==
    LET key == BucketKey(i, p)
        cutoff == t - window_seconds(p)
        q == DropOld(Bucket(tbl, key), cutoff)
    IN  IF Exceeded(q, max_requests(p))
        THEN [ok |-> FALSE, tbl |-> SetBucket(tbl, key, q)]
        ELSE [ok |-> TRUE, tbl |-> SetBucket(tbl, key, Append(q, t))]

\* the history with one more call of (i, p) at t and its outcome
Logged(h, i, p, t, ok) ==
    [h EXCEPT ![<<i, p>>] = @ (+) SetToBag({<<t, ok>>})]

\* the passage of time
Tick ==
    /\ clock < MaxClock
    /\ clock' = clock + 1
    /\ UNCHANGED <<cfgVars, _buckets, reqVars, hist, authVars, hdlVars>>

\* requests are numbered in the order they come in
NextRequest(r) == pc[r] = "new" /\ \A s \in Requests : s < r => pc[s] # "new"

\* a request of (ip, path) enters dependency() and reads the clock, before
\* the lock is taken:
\* now = time.monotonic(); ip = ...; key = (ip, request.url.path)
Call(r) ==
    /\ r <= MaxCalls
    /\ NextRequest(r)
    /\ \E i \in IPs, p \in LimiterPaths :
         /\ ip' = [ip EXCEPT ![r] = i]
         /\ path' = [path EXCEPT ![r] = p]
    /\ now' = [now EXCEPT ![r] = clock]
    /\ pc' = [pc EXCEPT ![r] = "rl_lock"]
    /\ UNCHANGED <<clock, cfgVars, _buckets, status, hist, authVars, hdlVars>>

\* with _lock: ... ; the whole block runs under the one lock, then
\* dependency() returns True or raises 429 and its locals are gone
Check(r) ==
    /\ pc[r] = "rl_lock"
    /\ LET res == LockedSection(_buckets, ip[r], path[r], now[r])
       IN  /\ _buckets' = res.tbl
           /\ hist' = Logged(hist, ip[r], path[r], now[r], res.ok)
    /\ pc' = [pc EXCEPT ![r] = "done"]
    /\ ip' = [ip EXCEPT ![r] = "unknown"]
    /\ path' = [path EXCEPT ![r] = "/health"]
    /\ now' = [now EXCEPT ![r] = 0]
    /\ UNCHANGED <<clock, cfgVars, status, authVars, hdlVars>>

InitConfig ==
    /\ RL_WINDOW_SECONDS \in 1..MaxCfgWindow
    /\ RL_MAX_REQUESTS \in 1..MaxCfgRequests
    /\ RL_DOWNLOAD_WINDOW \in 1..MaxCfgWindow
    /\ RL_DOWNLOAD_MAX \in 1..MaxCfgRequests

InitRequests ==
    /\ pc = [r \in Requests |-> "new"]
    /\ ip = [r \in Requests |-> "unknown"]
    /\ path = [r \in Requests |-> "/health"]
    /\ now = [r \in Requests |-> 0]
    /\ status = [r \in Requests |-> 0]
    /\ cred = [r \in Requests |-> "unset"]
    /\ _rl = [r \in Requests |-> "unset"]
    /\ detail = [r \in Requests |-> ""]
    /\ url = [r \in Requests |-> "None"]
    /\ temp_dir = [r \in Requests |-> "None"]
    /\ files = [r \in Requests |-> 0]
    /\ file_size = [r \in Requests |-> 0]
    /\ used = [r \in Requests |-> [c \in Collaborators |-> 0]]
    /\ inserted = [r \in Requests |-> FALSE]
    /\ bg = [r \in Requests |-> FALSE]
    /\ search_res = [r \in Requests |-> None]
    /\ calls = [r \in Requests |-> << >>]
    /\ diag = [r \in Requests |-> "None"]
    /\ body = [r \in Requests |-> << >>]

\* no request under get_api_key on its own
InitNoAuthCall ==
    /\ headers = [api_key |-> None, x_api_key |-> None, authorization |-> None]
    /\ auth = "unset"

Init ==
    /\ clock = 0
    /\ InitConfig
    /\ _buckets = << >>
    /\ hist = [k \in IPs \X Paths |-> EmptyBag]
    /\ InitRequests
    /\ InitNoAuthCall

LimiterNext ==
    \/ Tick
    \/ \E r \in Requests : Call(r)
    \/ \E r \in Requests : Check(r)

LimiterSpec == Init /\ [][LimiterNext]_vars

(* ---------------------------------------------------------------------- *)
(* Auth dependency                                                        *)
(* ---------------------------------------------------------------------- *)

\* API_KEY = os.getenv("API_KEY"), not empty (the start-up check)
API_KEY == <<"K">>

\* the header values a request is sent with: absent, empty, the secret,
\* another key, the secret and another key as Bearer tokens, the secret under
\* another scheme, and a key with a character outside ASCII
HeaderValues ==
    { None, << >>, API_KEY, <<"x">>, <<"Bearer ">> \o API_KEY,
      <<"Bearer ", "x">>, <<"Basic ">> \o API_KEY, <<"NONASCII">> }

\* the truth value of an Optional[str]
Truthy(v) == v # None /\ v # << >>

\* hmac.compare_digest raises TypeError on a str with a non-ASCII character
IsAscii(v) == \A a \in DOMAIN v : v[a] # "NONASCII"

\* get_api_key: "True" when it returns, "403" when it raises the
\* HTTPException, "500" when compare_digest raises and unhandled_exc answers
get_api_key(api_key, x_api_key, authorization) ==
    LET token ==
            IF Truthy(api_key) THEN api_key
            ELSE IF Truthy(x_api_key) THEN x_api_key
            ELSE IF Truthy(authorization) /\ Head(authorization) = "Bearer "
                 THEN Tail(authorization)
                 ELSE None
    IN  IF ~Truthy(token) THEN "403"
        ELSE IF ~IsAscii(token) THEN "500"
        ELSE IF token = API_KEY THEN "True"
        ELSE "403"

\* one call of get_api_key with the headers of the request
AuthCall ==
    /\ auth = "unset"
    /\ auth' = get_api_key(headers.api_key, headers.x_api_key, headers.authorization)
    /\ UNCHANGED <<clock, cfgVars, _buckets, reqVars, hist, headers, hdlVars>>

AuthInit ==
    /\ clock = 0
    /\ InitConfig
    /\ _buckets = << >>
    /\ hist = [k \in IPs \X Paths |-> EmptyBag]
    /\ InitRequests
    /\ headers \in [api_key : HeaderValues, x_api_key : HeaderValues,
                    authorization : HeaderValues]
    /\ auth = "unset"

AuthNext == AuthCall

AuthSpec == AuthInit /\ [][AuthNext]_vars

(* ---------------------------------------------------------------------- *)
(* Request dispatch: dependencies, then the handler of the route          *)
(* ---------------------------------------------------------------------- *)

\* the Depends(...) parameters of each route, in declaration order: FastAPI
\* solves them in that order and stops at the first that raises
Dependencies(p) ==
    IF p = "/health" THEN <<"rate_limit">> ELSE <<"get_api_key", "rate_limit">>

\* mutant of FirstStep: no route runs get_api_key
FirstStepNoAuth(p) == "rl_now"

\* where a request of route p starts
FirstStep(p) ==
    IF Head(Dependencies(p)) = "get_api_key" THEN "auth" ELSE "rl_now"

\* the response is sent; an HTTPException goes through http_exc_handler
Respond(r, code, msg) ==
    /\ status' = [status EXCEPT ![r] = code]
    /\ detail' = [detail EXCEPT ![r] = msg]
    /\ pc' = [pc EXCEPT ![r] = "done"]

\* mutant of Raise: an upstream failure (502) is answered as a success with
\* the fields the handler has so far
RaisePartial(r, code, msg) ==
    IF code = 502
    THEN /\ Respond(r, 200, "")
         /\ body' = [body EXCEPT ![r] = <<"None", url[r]>>]
    ELSE /\ Respond(r, code, msg)
         /\ body' = body

\* raise HTTPException(status_code=code, detail=msg): the error response
\* carries no result
Raise(r, code, msg) ==
    /\ Respond(r, code, msg)
    /\ body' = body

\* return ...: the 200 with the content of the result
Return(r, content) ==
    /\ Respond(r, 200, "")
    /\ body' = [body EXCEPT ![r] = content]

Goto(r, label) == pc' = [pc EXCEPT ![r] = label]

\* the handler goes on to its next step, no response yet
Continue(r, label) ==
    /\ Goto(r, label)
    /\ UNCHANGED <<status, detail, body>>

Use(r, c) == used' = [used EXCEPT ![r][c] = @ + 1]

\* one more external call of request r and how it ended
Called(r, step, outcome) ==
    calls' = [calls EXCEPT ![r] = Append(@, <<step, outcome>>)]

\* the texts an external tool or an exception can come with: result.stderr
\* and result.stdout of yt-dlp, r.text of Telegram, str(e) of an exception
Diagnostics == {"diagnostic 1", "diagnostic 2"}

\* logger.error(...) / logger.exception(...) of the text
Diagnosed(r, d) == diag' = [diag EXCEPT ![r] = d]

\* mutant of TimedOut: a timeout is reported like a non-zero exit
TimedOutAsFailure(r) == Raise(r, 502, "yt-dlp failed")

\* except subprocess.TimeoutExpired:
\*     raise HTTPException(status_code=504, detail="yt-dlp timed out")
TimedOut(r) == Raise(r, 504, "yt-dlp timed out")

\* mutant of YtDlpFailed: stderr is handed to the client
YtDlpFailedLeaky(d) == d

\* raise HTTPException(status_code=502, detail="yt-dlp failed")
YtDlpFailed(d) == "yt-dlp failed"

\* raise HTTPException(status_code=502, detail="Telegram upload failed")
UploadFailed(d) == "Telegram upload failed"

\* unhandled_exc, and the `except Exception` of each handler
InternalError(d) == "Internal error"

\* what get_api_key does with the three key headers a request can carry
CredOutcomes ==
    {get_api_key(a, x, z) : a \in HeaderValues, x \in HeaderValues, z \in HeaderValues}

\* mutant of DependencyFrame: a handler step that ends in an error response
\* takes the newest timestamp back out of the bucket of its request
DependencyFrameRollback ==
    /\ UNCHANGED <<clock, cfgVars, ip, path, now, hist, authVars, cred, _rl>>
    /\ LET failing == {r \in Requests :
                          pc[r] # "done" /\ pc'[r] = "done" /\ status'[r] >= 400}
       IN  IF failing = {}
           THEN _buckets' = _buckets
           ELSE LET r == CHOOSE x \in failing : TRUE
                    key == BucketKey(ip[r], path[r])
                    q == Bucket(_buckets, key)
                IN  _buckets' = SetBucket(_buckets, key, SubSeq(q, 1, Len(q) - 1))

\* what the handler steps never touch
DependencyFrame ==
    UNCHANGED <<clock, cfgVars, _buckets, ip, path, now, hist, authVars, cred, _rl>>

\* a request comes in: its route, its caller and its three key headers
Receive(r) ==
    /\ r <= MaxInFlight
    /\ NextRequest(r)
    /\ \E i \in Callers, p \in Paths :
         /\ ip' = [ip EXCEPT ![r] = i]
         /\ path' = [path EXCEPT ![r] = p]
         /\ Goto(r, FirstStep(p))
    /\ \E c \in CredOutcomes : cred' = [cred EXCEPT ![r] = c]
    /\ UNCHANGED <<clock, cfgVars, _buckets, now, status, hist, authVars,
                   _rl, detail, url, temp_dir, files, file_size, used, inserted, bg,
                   search_res, calls, diag, body>>

\* _ok: bool = Depends(get_api_key)
Authenticate(r) ==
    /\ pc[r] = "auth"
    /\ CASE cred[r] = "True" -> Continue(r, "rl_now") /\ UNCHANGED diag
         [] cred[r] = "403" -> Raise(r, 403, "Invalid API Key") /\ UNCHANGED diag
         [] OTHER -> \E d \in Diagnostics :
                        Diagnosed(r, d) /\ Raise(r, 500, InternalError(d))
    /\ UNCHANGED <<clock, cfgVars, _buckets, ip, path, now, hist, authVars,
                   cred, _rl, url, temp_dir, files, file_size, used, inserted, bg,
                   search_res, calls>>

\* _rl: bool = Depends(rate_limit_...): the clock read, before the lock
ReadNow(r) ==
    /\ pc[r] = "rl_now"
    /\ now' = [now EXCEPT ![r] = clock]
    /\ Goto(r, "rl_lock")
    /\ UNCHANGED <<clock, cfgVars, _buckets, ip, path, status, hist, authVars, hdlVars>>

\* the locked section; then the handler runs, or the 429 is sent
RateLimit(r) ==
    /\ pc[r] = "rl_lock"
    /\ LET res == LockedSection(_buckets, ip[r], path[r], now[r])
       IN  /\ _buckets' = res.tbl
           /\ IF res.ok
              THEN /\ _rl' = [_rl EXCEPT ![r] = "True"]
                   /\ Goto(r, "handler")
                   /\ UNCHANGED <<status, detail>>
              ELSE /\ _rl' = [_rl EXCEPT ![r] = "429"]
                   /\ Respond(r, 429, "Too Many Requests")
    /\ now' = [now EXCEPT ![r] = 0]
    /\ UNCHANGED <<clock, cfgVars, ip, path, hist, authVars,
                   cred, url, temp_dir, files, file_size, used, inserted, bg,
                   search_res, calls, diag, body>>

\* health()
Health(r) ==
    /\ pc[r] = "handler" /\ path[r] = "/health"
    /\ Return(r, <<"ok">>)
    /\ DependencyFrame
    /\ UNCHANGED <<url, temp_dir, files, file_size, used, inserted, bg,
                   search_res, calls, diag>>

\* mutant of Searched: stream takes search_res[0] without the emptiness test,
\* and the IndexError ends in `except Exception`
SearchedUnchecked(r, res) ==
    /\ search_res' = [search_res EXCEPT ![r] = res]
    /\ IF path[r] = "/yt_search"
       THEN Return(r, <<"results">> \o res) /\ UNCHANGED url
       ELSE IF res = << >>
            THEN Raise(r, 500, "Internal error") /\ UNCHANGED url
            ELSE /\ url' = [url EXCEPT ![r] = Head(res)]
                 /\ Continue(r, "resolve")

\* youtube_search returns the list res to its caller: yt_search_endpoint
\* returns it, stream takes the url of the first result or raises 404
Searched(r, res) ==
    /\ search_res' = [search_res EXCEPT ![r] = res]
    /\ IF path[r] = "/yt_search"
       THEN Return(r, <<"results">> \o res) /\ UNCHANGED url
       ELSE IF res = << >>
            THEN Raise(r, 404, "No video found") /\ UNCHANGED url
            ELSE /\ url' = [url EXCEPT ![r] = Head(res)]
                 /\ Continue(r, "resolve")

\* mutant of PrimaryOutcomes: a non-empty answer of the Data API is not
\* returned at once
PrimaryOutcomesAll == {"items", "empty", "error"}

\* the answers of the Data API after which youtube_search goes on to the
\* fallback: no items, or an HttpError / Exception
PrimaryOutcomes == {"empty", "error"}

\* youtube_search, first part: the YouTube Data API
SearchApi(r) ==
    /\ \/ pc[r] = "handler" /\ path[r] = "/yt_search"
       \/ pc[r] = "search_api"
    /\ Use(r, "youtube_api")
    /\ \/ /\ Called(r, "search.list", "items")       \* if results: return results
          /\ Searched(r, <<"found">>)
       \/ /\ \E o \in PrimaryOutcomes : Called(r, "search.list", o)
          /\ Continue(r, "search_fallback")
          /\ UNCHANGED <<url, search_res>>
    /\ DependencyFrame
    /\ UNCHANGED <<temp_dir, files, file_size, inserted, bg, diag>>

\* youtube_search, second part: run_yt_dlp(["--dump-json", "ytsearchN:..."])
SearchFallback(r) ==
    /\ pc[r] = "search_fallback"
    /\ Use(r, "yt_dlp")
    /\ \/ /\ Called(r, "ytsearch", "timeout")
          /\ TimedOut(r)
          /\ UNCHANGED <<url, search_res, diag>>
       \/ \E d \in Diagnostics :
            /\ Called(r, "ytsearch", "failed")
            /\ Diagnosed(r, d)
            /\ Raise(r, 502, YtDlpFailed(d))
            /\ UNCHANGED <<url, search_res>>
       \/ /\ Called(r, "ytsearch", "ok")
          /\ \E res \in {<< >>, <<"found">>} : Searched(r, res)  \* the lines that parse
          /\ UNCHANGED diag
       \/ \E d \in Diagnostics :                     \* except Exception: return []
            /\ Called(r, "ytsearch", "exception")
            /\ Diagnosed(r, d)
            /\ Searched(r, << >>)
    /\ DependencyFrame
    /\ UNCHANGED <<temp_dir, files, file_size, inserted, bg>>

\* get_info()
Info(r) ==
    /\ pc[r] = "handler" /\ path[r] = "/info"
    /\ \/ /\ Raise(r, 400, "Could not extract video id")
          /\ UNCHANGED <<used, calls, diag>>
       \/ /\ Use(r, "youtube_api")
          /\ \/ \E d \in Diagnostics :               \* except HttpError
                  /\ Called(r, "videos.list", "error")
                  /\ Diagnosed(r, d)
                  /\ Raise(r, 502, "YouTube API error")
             \/ /\ Called(r, "videos.list", "empty")
                /\ Raise(r, 404, "Video not found")
                /\ UNCHANGED diag
             \/ \E d \in Diagnostics :               \* except Exception
                  /\ Called(r, "videos.list", "exception")
                  /\ Diagnosed(r, d)
                  /\ Raise(r, 500, InternalError(d))
             \/ /\ Called(r, "videos.list", "items")
                /\ Return(r, <<"info">>)
                /\ UNCHANGED diag
    /\ DependencyFrame
    /\ UNCHANGED <<url, temp_dir, files, file_size, inserted, bg, search_res>>

\* stream(), up to the url it works on
Stream(r) ==
    /\ pc[r] = "handler" /\ path[r] = "/stream"
    /\ \E u \in {"None", "given"}, query \in BOOLEAN :
         IF query /\ u = "None"
         THEN Continue(r, "search_api") /\ UNCHANGED url
         ELSE IF u = "None"
              THEN Raise(r, 400, "You must provide url or query") /\ UNCHANGED url
              ELSE /\ url' = [url EXCEPT ![r] = u]
                   /\ Continue(r, "resolve")
    /\ DependencyFrame
    /\ UNCHANGED <<temp_dir, files, file_size, used, inserted, bg,
                   search_res, calls, diag>>

\* stream(): run_yt_dlp(["-f", "bestaudio", "--no-playlist", "--get-url", url])
Resolve(r) ==
    /\ pc[r] = "resolve"
    /\ Use(r, "yt_dlp")
    /\ \/ /\ Called(r, "--get-url", "timeout")
          /\ TimedOut(r)
          /\ UNCHANGED diag
       \/ \E d \in Diagnostics :
            /\ Called(r, "--get-url", "failed")
            /\ Diagnosed(r, d)
            /\ Raise(r, 502, YtDlpFailed(d))
       \/ \E d \in Diagnostics :                     \* except Exception
            /\ Called(r, "--get-url", "exception")
            /\ Diagnosed(r, d)
            /\ Raise(r, 500, InternalError(d))
       \/ /\ Called(r, "--get-url", "ok")
          /\ Continue(r, "insert")
          /\ UNCHANGED diag
    /\ DependencyFrame
    /\ UNCHANGED <<url, temp_dir, files, file_size, inserted, bg, search_res>>

\* mutant of AfterInsert: a failed insert fails the request
AfterInsertRaising(r, stored) ==
    IF stored
    THEN Return(r, <<"direct", url[r]>>)
    ELSE Raise(r, 500, "Internal error")

\* except Exception as mongo_err: logger.error(...), then
\* return {"direct_url": output, "youtube_url": url}
AfterInsert(r, stored) == Return(r, <<"direct", url[r]>>)

\* stream(): collection.insert_one(...) in its own try, then the result
Insert(r) ==
    /\ pc[r] = "insert"
    /\ Use(r, "mongo")
    /\ \E stored \in BOOLEAN :
         /\ inserted' = [inserted EXCEPT ![r] = stored]
         /\ Called(r, "insert_one", IF stored THEN "ok" ELSE "exception")
         /\ AfterInsert(r, stored)
    /\ DependencyFrame
    /\ UNCHANGED <<url, temp_dir, files, file_size, bg, search_res, diag>>

\* send_to_telegram: 50 * 1024 * 1024
SizeLimit == 50 * 1024 * 1024

\* the sizes the extracted file is drawn from
FileSizes == {1, SizeLimit, SizeLimit + 1}

\* mutant of TooLarge: the ceiling is one byte too high
TooLargeOffByOne(size) == size > SizeLimit + 1

\* if file_size > 50 * 1024 * 1024
TooLarge(size) == size > SizeLimit

\* except Exception: logger.exception(...), shutil.rmtree(temp_dir,
\* ignore_errors=True), then the 500; an HTTPException does not come here
CleanupAndFail(r, d) ==
    /\ temp_dir' = [temp_dir EXCEPT ![r] = IF @ = "exists" THEN "removed" ELSE @]
    /\ Diagnosed(r, d)
    /\ Raise(r, 500, InternalError(d))

\* download_mp3(): temp_dir = tempfile.mkdtemp(prefix="ytmp3_")
Mkdtemp(r) ==
    /\ pc[r] = "handler" /\ path[r] = "/download"
    /\ \/ /\ temp_dir' = [temp_dir EXCEPT ![r] = "exists"]
          /\ Continue(r, "extract")
          /\ UNCHANGED diag
       \/ \E d \in Diagnostics : CleanupAndFail(r, d)  \* mkdtemp raises, temp_dir is None
    /\ DependencyFrame
    /\ UNCHANGED <<url, files, file_size, used, inserted, bg, search_res, calls>>

\* download_mp3(): run_yt_dlp(["--extract-audio", ..., "-o", out_file, url])
Extract(r) ==
    /\ pc[r] = "extract"
    /\ Use(r, "yt_dlp")
    /\ \/ /\ Called(r, "--extract-audio", "timeout")
          /\ TimedOut(r)
          /\ UNCHANGED <<temp_dir, files, diag>>
       \/ \E d \in Diagnostics :
            /\ Called(r, "--extract-audio", "failed")
            /\ Diagnosed(r, d)
            /\ Raise(r, 502, YtDlpFailed(d))
            /\ UNCHANGED <<temp_dir, files>>
       \/ \E d \in Diagnostics :
            /\ Called(r, "--extract-audio", "exception")
            /\ CleanupAndFail(r, d)
            /\ UNCHANGED files
       \/ /\ Called(r, "--extract-audio", "ok")
          /\ \E n \in {0, 1} : files' = [files EXCEPT ![r] = n]
          /\ Continue(r, "listdir")
          /\ UNCHANGED <<temp_dir, diag>>
    /\ DependencyFrame
    /\ UNCHANGED <<url, file_size, inserted, bg, search_res>>

\* mutant of NoFiles: the listing is never found empty
NoFilesNever(n) == FALSE

\* if not files
NoFiles(n) == n = 0

\* download_mp3(): files = os.listdir(temp_dir); if not files: raise 500
ListDir(r) ==
    /\ pc[r] = "listdir"
    /\ IF NoFiles(files[r])
       THEN Raise(r, 500, "MP3 not found after download")
       ELSE Continue(r, "getsize")
    /\ DependencyFrame
    /\ UNCHANGED <<url, temp_dir, files, file_size, used, inserted, bg,
                   search_res, calls, diag>>

\* send_to_telegram(): the size test, before the upload
GetSize(r) ==
    /\ pc[r] = "getsize"
    /\ \E size \in FileSizes :
         /\ file_size' = [file_size EXCEPT ![r] = size]
         /\ IF TooLarge(size)
            THEN Raise(r, 400, "File size exceeds 50MB limit")
            ELSE Continue(r, "post")
    /\ DependencyFrame
    /\ UNCHANGED <<url, temp_dir, files, used, inserted, bg, search_res, calls, diag>>

\* send_to_telegram(): requests.post(url, files=..., data=..., timeout=60),
\* then in download_mp3 the cleanup task and the FileResponse
Post(r) ==
    /\ pc[r] = "post"
    /\ Use(r, "telegram")
    /\ \/ \E d \in Diagnostics :                     \* requests.Timeout
            /\ Called(r, "sendAudio", "timeout")
            /\ CleanupAndFail(r, d)
            /\ UNCHANGED bg
       \/ \E d \in Diagnostics :                     \* post or r.json() raises
            /\ Called(r, "sendAudio", "exception")
            /\ CleanupAndFail(r, d)
            /\ UNCHANGED bg
       \/ \E d \in Diagnostics :                     \* not r.ok
            /\ Called(r, "sendAudio", "failed")
            /\ Diagnosed(r, d)
            /\ Raise(r, 502, UploadFailed(d))
            /\ UNCHANGED <<temp_dir, bg>>
       \/ /\ Called(r, "sendAudio", "ok")
          /\ bg' = [bg EXCEPT ![r] = TRUE]            \* bg.add_task(rmtree)
          /\ status' = [status EXCEPT ![r] = 200]
          /\ body' = [body EXCEPT ![r] = <<"file">>]
          /\ Goto(r, "background")
          /\ UNCHANGED <<detail, temp_dir, diag>>
    /\ DependencyFrame
    /\ UNCHANGED <<url, files, file_size, inserted, search_res>>

\* the task runs once the response is sent: shutil.rmtree(p, ignore_errors=True)
Background(r) ==
    /\ pc[r] = "background"
    /\ bg[r]
    /\ temp_dir' = [temp_dir EXCEPT ![r] = "removed"]
    /\ bg' = [bg EXCEPT ![r] = FALSE]
    /\ Goto(r, "done")
    /\ DependencyFrame
    /\ UNCHANGED <<status, detail, url, files, file_size, used, inserted,
                   search_res, calls, diag, body>>

Next ==
    \/ Tick
    \/ \E r \in Requests : Receive(r)
    \/ \E r \in Requests : Authenticate(r)
    \/ \E r \in Requests : ReadNow(r)
    \/ \E r \in Requests : RateLimit(r)
    \/ \E r \in Requests : Health(r)
    \/ \E r \in Requests : SearchApi(r)
    \/ \E r \in Requests : SearchFallback(r)
    \/ \E r \in Requests : Info(r)
    \/ \E r \in Requests : Stream(r)
    \/ \E r \in Requests : Resolve(r)
    \/ \E r \in Requests : Insert(r)
    \/ \E r \in Requests : Mkdtemp(r)
    \/ \E r \in Requests : Extract(r)
    \/ \E r \in Requests : ListDir(r)
    \/ \E r \in Requests : GetSize(r)
    \/ \E r \in Requests : Post(r)
    \/ \E r \in Requests : Background(r)

Spec == Init /\ [][Next]_vars

(* ---------------------------------------------------------------------- *)
(* The scenario of one caller on one key, calls made one after another    *)
(* ---------------------------------------------------------------------- *)

\* number of calls made in the scenario specification
ScenarioCalls == 8

ScenarioKey == <<"1.2.3.4", "/search">>

\* the clock values at which the scenario's calls are made, and the outcomes
\* the scenario states for them
ScenarioTimes == <<0, 1, 2, 3, 4, 5, 6, 61>>
ScenarioStated == <<TRUE, TRUE, TRUE, TRUE, TRUE, TRUE, FALSE, TRUE>>

\* dependency() run from its clock read to its return with no other request
\* in between
Allow(i, p) ==
    /\ BagCardinality(hist[<<i, p>>]) < ScenarioCalls
    /\ LET res == LockedSection(_buckets, i, p, clock)
       IN  /\ _buckets' = res.tbl
           /\ hist' = Logged(hist, i, p, clock, res.ok)
    /\ UNCHANGED <<clock, cfgVars, reqVars, authVars, hdlVars>>

\* time passes up to the next clock value of the scenario
Advance ==
    /\ \E a \in DOMAIN ScenarioTimes :
         /\ ScenarioTimes[a] > clock
         /\ clock' = ScenarioTimes[a]
    /\ UNCHANGED <<cfgVars, _buckets, reqVars, hist, authVars, hdlVars>>

ScenarioInit ==
    /\ clock = 0
    /\ RL_MAX_REQUESTS = 5
    /\ RL_WINDOW_SECONDS = 60
    /\ RL_DOWNLOAD_MAX = 5
    /\ RL_DOWNLOAD_WINDOW = 60
    /\ _buckets = << >>
    /\ hist = [k \in {ScenarioKey} |-> EmptyBag]
    /\ InitRequests
    /\ InitNoAuthCall

ScenarioNext ==
    \/ Allow(ScenarioKey[1], ScenarioKey[2])
    \/ Advance

ScenarioSpec == ScenarioInit /\ [][ScenarioNext]_vars

(* ---------------------------------------------------------------------- *)
(* Properties of the rate limiter                                         *)
(* ---------------------------------------------------------------------- *)

\* the step in which request r runs the locked section
Checks(r) == pc[r] = "rl_lock" /\ pc'[r] # "rl_lock"
Admits(r) == hist' = Logged(hist, ip[r], path[r], now[r], TRUE)
Rejects(r) == hist' = Logged(hist, ip[r], path[r], now[r], FALSE)

\* the bucket a request of (i, p) works on
BucketOf(tbl, i, p) == Bucket(tbl, BucketKey(i, p))

\* non-decreasing from front to back, and nothing later than t
OrderedUpTo(q, t) ==
    /\ \A a, b \in DOMAIN q : a < b => q[a] <= q[b]
    /\ \A a \in DOMAIN q : q[a] <= t

\* what is left of q once every timestamp older than lo is taken from the front
KeptFrom(q, lo) ==
    LET first == CHOOSE a \in 1..(Len(q) + 1) :
                     /\ \A b \in 1..(a - 1) : q[b] < lo
                     /\ a <= Len(q) => q[a] >= lo
    IN  SubSeq(q, first, Len(q))

\* number of recorded timestamps t with lo <= t <= hi
CountClosed(q, lo, hi) == Cardinality({a \in DOMAIN q : lo <= q[a] /\ q[a] <= hi})
\* number of recorded timestamps t with lo < t <= hi
CountHalfOpen(q, lo, hi) == Cardinality({a \in DOMAIN q : lo < q[a] /\ q[a] <= hi})

\* the admitted / rejected calls of a history bag
NumRejected(b) == BagCardinality([e \in {x \in BagToSet(b) : ~x[2]} |-> b[e]])
TimesOf(b) == {e[1] : e \in BagToSet(b)}
SpanOf(b) ==
    IF b = EmptyBag THEN 0
    ELSE LET ts == TimesOf(b)
         IN  (CHOOSE t \in ts : \A u \in ts : u <= t)
             - (CHOOSE t \in ts : \A u \in ts : t <= u)

\* C1 (as stated, for the buckets that requests running one after another
\* leave behind: ordered, nothing later than now): the request is admitted
\* exactly when fewer than max_requests recorded timestamps t satisfy
\* now - window_seconds < t <= now, so that a timestamp exactly
\* window_seconds old is not counted.
C1Original ==
    [][\A r \in Requests : Checks(r) =>
          LET q == BucketOf(_buckets, ip[r], path[r])
          IN  OrderedUpTo(q, now[r]) =>
                (Admits(r) <=>
                   CountHalfOpen(q, now[r] - window_seconds(path[r]), now[r])
                     < max_requests(path[r]))]_vars

\* C1 (amended): for every key, bucket content and now, the limiter first
\* drops from the front of the bucket the timestamps t < now - window_seconds;
\* it admits and appends now exactly when fewer than max_requests timestamps
\* are left, and otherwise rejects and appends nothing.  For an ordered bucket
\* with nothing later than now, the timestamps left are those with
\* now - window_seconds <= t <= now: one exactly window_seconds old counts.
C1Amended ==
    [][\A r \in Requests : Checks(r) =>
          LET q == BucketOf(_buckets, ip[r], path[r])
              lo == now[r] - window_seconds(path[r])
              kept == KeptFrom(q, lo)
          IN  /\ Len(kept) < max_requests(path[r]) =>
                    /\ Admits(r)
                    /\ BucketOf(_buckets', ip[r], path[r]) = Append(kept, now[r])
              /\ Len(kept) >= max_requests(path[r]) =>
                    /\ Rejects(r)
                    /\ BucketOf(_buckets', ip[r], path[r]) = kept
              /\ OrderedUpTo(q, now[r]) => Len(kept) = CountClosed(q, lo, now[r])]_vars

\* C1 witness: a call was rejected at t although fewer than max_requests
\* calls were admitted at times in (t - window_seconds, t]: the admitted
\* call exactly window_seconds old decided it.
C1Witness ==
    \E i \in IPs, p \in LimiterPaths : \E t \in 0..MaxClock :
        LET b == hist[<<i, p>>]
            inside == {e \in BagToSet(b) :
                          e[2] /\ t - window_seconds(p) < e[1] /\ e[1] <= t}
        IN  /\ <<t, FALSE>> \in BagToSet(b)
            /\ <<t - window_seconds(p), TRUE>> \in BagToSet(b)
            /\ BagCardinality([e \in inside |-> b[e]]) < max_requests(p)
            /\ \A e \in BagToSet(b) : e[1] <= t

\* C2: for every configuration and key, starting from an empty bucket, the
\* first max_requests calls are all admitted, and when max_requests + 1 calls
\* were made with clock values no more than window_seconds apart, exactly the
\* last of them was rejected.
C2FirstMaxThenReject ==
    \A i \in IPs, p \in Paths :
        LET b == hist[<<i, p>>]
        IN  /\ BagCardinality(b) <= max_requests(p) => NumRejected(b) = 0
            /\ (BagCardinality(b) = max_requests(p) + 1
                  /\ SpanOf(b) <= window_seconds(p)) => NumRejected(b) = 1

\* C2 witness: max_requests + 1 calls on one key within one window, the
\* last one rejected.
C2Witness ==
    \E i \in IPs, p \in LimiterPaths :
        LET b == hist[<<i, p>>]
        IN  /\ BagCardinality(b) = max_requests(p) + 1
            /\ SpanOf(b) < window_seconds(p)
            /\ NumRejected(b) = 1

\* C3: under any interleaving, the number of requests admitted for one key
\* with clock values inside one span of window_seconds (t <= now < t +
\* window_seconds) never exceeds max_requests.
C3NoDoubleAdmission ==
    \A i \in IPs, p \in Paths : \A t \in 0..MaxClock :
        LET b == hist[<<i, p>>]
            inside == {e \in BagToSet(b) :
                          e[2] /\ t <= e[1] /\ e[1] < t + window_seconds(p)}
        IN  BagCardinality([e \in inside |-> b[e]]) <= max_requests(p)

\* C5: when the bucket of a key is exhausted (it holds max_requests
\* timestamps) and a request on that key reads a clock value later than
\* window_seconds after the first recorded timestamp (the front of the
\* bucket), that request is admitted, whatever the earlier requests were.
C5AdmitsAfterWindow ==
    [][\A r \in Requests : Checks(r) =>
          LET q == BucketOf(_buckets, ip[r], path[r])
          IN  (/\ Len(q) >= max_requests(path[r])
               /\ now[r] > Head(q) + window_seconds(path[r])) => Admits(r)]_vars

\* C5 witness: on one key a call was admitted, a later call rejected, and a
\* call more than window_seconds after the first one admitted again.
C5Witness ==
    \E i \in IPs, p \in LimiterPaths : \E t0, t1, t2 \in 0..MaxClock :
        LET b == hist[<<i, p>>]
        IN  /\ <<t0, TRUE>> \in BagToSet(b)
            /\ <<t1, FALSE>> \in BagToSet(b)
            /\ <<t2, TRUE>> \in BagToSet(b)
            /\ t0 <= t1 /\ t1 <= t2
            /\ t2 > t0 + window_seconds(p)

\* C6: a request on one key, admitted or rejected, leaves the bucket of every
\* other (caller, path) as it was, and a request is rejected only when its
\* own bucket holds max_requests timestamps.
C6PerKey ==
    [][\A r \in Requests : Checks(r) =>
          /\ \A i \in IPs, p \in Paths :
                <<i, p>> # <<ip[r], path[r]>> =>
                    BucketOf(_buckets', i, p) = BucketOf(_buckets, i, p)
          /\ Rejects(r) =>
                Len(BucketOf(_buckets, ip[r], path[r])) >= max_requests(path[r])]_vars

\* C6 witness: one key is exhausted (a call on it was rejected) and a call
\* of the same caller on another path, under the other limiter, is admitted
\* at the same time or later.
C6Witness ==
    \E i \in IPs : \E t1, t2 \in 0..MaxClock :
        /\ t1 <= t2
        /\ <<t1, FALSE>> \in BagToSet(hist[<<i, "/stream">>])
        /\ <<t2, TRUE>> \in BagToSet(hist[<<i, "/download">>])

\* the calls made so far are the first n calls of the scenario, one per
\* clock value
ScenarioPrefix(b, n) ==
    /\ TimesOf(b) = {ScenarioTimes[a] : a \in 1..n}
    /\ BagCardinality(b) = n

\* C4 (as stated): with max_requests = 5 and window_seconds = 60 and an
\* empty bucket, the calls at t = 0, 1, 2, 3, 4, 5 are admitted, the call at
\* t = 6 is rejected and the call at t = 61 is admitted.
C4Original ==
    \A n \in DOMAIN ScenarioTimes :
        ScenarioPrefix(hist[ScenarioKey], n) =>
            hist[ScenarioKey] =
                SetToBag({<<ScenarioTimes[a], ScenarioStated[a]>> : a \in 1..n})

\* C4 (amended): with max_requests = 5 and window_seconds = 60 and an empty
\* bucket, the calls at t = 0, 1, 2, 3, 4 are admitted, the calls at t = 5
\* and t = 6 are rejected, and the call at t = 61 is admitted again.
C4Amended ==
    \A n \in DOMAIN ScenarioTimes :
        ScenarioPrefix(hist[ScenarioKey], n) =>
            hist[ScenarioKey] =
                SetToBag({<<ScenarioTimes[a], ScenarioTimes[a] \notin {5, 6}>> : a \in 1..n})

\* C4 witness: all eight calls of the scenario were made, and the call at
\* t = 61 was admitted with the timestamps 1, 2, 3, 4 still in the bucket.
C4Witness ==
    /\ ScenarioPrefix(hist[ScenarioKey], Len(ScenarioTimes))
    /\ Bucket(_buckets, ScenarioKey) = <<1, 2, 3, 4, 61>>

\* the configured secret is presented in one of the three forms
PresentsSecret ==
    \/ headers.api_key = API_KEY
    \/ headers.x_api_key = API_KEY
    \/ headers.authorization = <<"Bearer ">> \o API_KEY

\* C7: for every combination of the three carriers, authentication rejects
\* with the auth error (403) when no carrier holds the configured secret, and
\* accepts when the secret is presented in any one of the three forms.
C7AnyOfThree ==
    auth # "unset" =>
        /\ ~PresentsSecret => auth = "403"
        /\ PresentsSecret => auth = "True"

(* ---------------------------------------------------------------------- *)
(* Properties of the dispatch                                             *)
(* ---------------------------------------------------------------------- *)

\* the limiter dependency of request r has started or has run
LimiterConsulted(r) == pc[r] = "rl_lock" \/ _rl[r] # "unset"

\* no collaborator (YouTube Data API, yt-dlp, Telegram, Mongo) was invoked
NothingInvoked(r) == \A c \in Collaborators : used[r][c] = 0

\* C8 (as stated): on every exposed operation, /health included, a request
\* whose credential is absent or invalid is turned away before the rate
\* limiter is consulted and never gets a success response, and a request the
\* rate limiter rejects invokes no collaborator.
C8Original ==
    \A r \in Requests : pc[r] # "new" =>
        /\ cred[r] # "True" => ~LimiterConsulted(r) /\ status[r] # 200
        /\ status[r] = 429 => NothingInvoked(r)

\* C8 (amended): every exposed operation except /health, which has no
\* authentication step, runs authenticate, then rate-limit, then resolve,
\* then (download only) relay, and stops at the first failure: a request
\* with an absent or invalid credential is turned away before the rate
\* limiter is consulted and gets no success response; on every operation,
\* /health included, no collaborator is invoked unless the rate limiter
\* admitted the request, and the relay only follows the downloader.
C8Amended ==
    \A r \in Requests : pc[r] # "new" =>
        /\ (path[r] # "/health" /\ cred[r] # "True") =>
              /\ ~LimiterConsulted(r)
              /\ status[r] # 200
              /\ NothingInvoked(r)
        /\ _rl[r] # "True" => NothingInvoked(r) /\ status[r] # 200
        /\ status[r] = 429 => NothingInvoked(r)
        /\ used[r]["telegram"] > 0 => path[r] = "/download" /\ used[r]["yt_dlp"] > 0
        /\ used[r]["mongo"] > 0 => path[r] = "/stream" /\ used[r]["yt_dlp"] > 0

\* C8 witness: a request with a bad credential on an authenticated route got
\* its 403 with the limiter untouched, while a download with the right
\* credential went through the limiter, the downloader and the relay.
C8Witness ==
    \E r, q \in Requests :
        /\ path[r] # "/health" /\ cred[r] = "403" /\ status[r] = 403
        /\ ~LimiterConsulted(r) /\ NothingInvoked(r)
        /\ path[q] = "/download" /\ cred[q] = "True" /\ _rl[q] = "True"
        /\ used[q]["telegram"] = 1 /\ status[q] = 200

\* C9: a download request that made a temporary directory has released it
\* by the time the request is finished, on every exit path.
C9TempDirReleased ==
    \A r \in Requests : pc[r] = "done" => temp_dir[r] # "exists"

\* C10: in the download operation, when the extracted file is larger than
\* the ceiling of 50 MB the request fails with the client-facing error
\* "File size exceeds 50MB limit" (status 400) and no upload is attempted;
\* an upload is attempted only after the size was measured and found within
\* the ceiling.
C10SizeBeforeUpload ==
    \A r \in Requests :
        /\ file_size[r] > SizeLimit =>
              /\ pc[r] = "done"
              /\ status[r] = 400
              /\ detail[r] = "File size exceeds 50MB limit"
              /\ used[r]["telegram"] = 0
        /\ used[r]["telegram"] > 0 => file_size[r] \in 1..SizeLimit

\* C10 witness: a download whose file is over the ceiling was answered 400
\* with no upload, after yt-dlp had produced the file.
C10Witness ==
    \E r \in Requests :
        /\ path[r] = "/download" /\ files[r] = 1
        /\ file_size[r] > SizeLimit
        /\ status[r] = 400 /\ used[r]["telegram"] = 0

\* the positions in the call log of request r at which `step` was called
CallsOf(r, step) == {a \in DOMAIN calls[r] : calls[r][a][1] = step}

\* the call log of request r holds `step` ended with `outcome`
Ended(r, step, outcome) == \E a \in DOMAIN calls[r] : calls[r][a] = <<step, outcome>>

\* C11: when the resolve-direct-URL operation is given a free-text query and
\* no URL, and the lookup (primary provider, then fallback) returns zero
\* results, the request fails with the not-found error (404, "No video
\* found"), never with an internal error, and the URL-resolution call of the
\* downloader (--get-url) is not made.
C11ZeroResultsNotFound ==
    \A r \in Requests :
        (path[r] = "/stream" /\ search_res[r] = << >>) =>
            /\ pc[r] = "done"
            /\ status[r] = 404
            /\ detail[r] = "No video found"
            /\ CallsOf(r, "--get-url") = {}
            /\ url[r] = "None"
            /\ body[r] = << >>

\* C11 witness: a /stream request whose primary provider returned no items
\* and whose fallback ran and found nothing was answered 404.
C11Witness ==
    \E r \in Requests :
        /\ path[r] = "/stream"
        /\ calls[r] = << <<"search.list", "empty">>, <<"ytsearch", "ok">> >>
        /\ search_res[r] = << >>
        /\ status[r] = 404

\* C12: in one lookup the primary provider is asked once; the fallback is
\* invoked exactly once, right after it, when the primary provider returned
\* no items or failed, and not at all when the primary provider returned at
\* least one item; the lookup hands back its list only after the primary
\* provider returned items or the fallback has run.
C12FallbackOnce ==
    \A r \in Requests :
        LET primary == CallsOf(r, "search.list")
            fallback == CallsOf(r, "ytsearch")
        IN  /\ Cardinality(primary) <= 1
            /\ Cardinality(fallback) <= 1
            /\ fallback # {} =>
                  /\ primary = {1} /\ fallback = {2}
                  /\ calls[r][1][2] \in {"empty", "error"}
            /\ Ended(r, "search.list", "items") =>
                  fallback = {} /\ search_res[r] = <<"found">>
            /\ (primary # {} /\ ~Ended(r, "search.list", "items")
                   /\ pc[r] # "search_fallback") => Cardinality(fallback) = 1
            /\ search_res[r] # None =>
                  Ended(r, "search.list", "items") \/ fallback # {}

\* C12 witness: a search whose primary provider returned zero items ran the
\* fallback once and returned the (empty) list it got, and another search
\* whose primary provider failed ran it once and returned a populated list.
C12Witness ==
    \E r, q \in Requests :
        /\ path[r] = "/yt_search"
        /\ calls[r] = << <<"search.list", "empty">>, <<"ytsearch", "ok">> >>
        /\ search_res[r] = << >> /\ status[r] = 200
        /\ path[q] = "/yt_search"
        /\ calls[q] = << <<"search.list", "error">>, <<"ytsearch", "ok">> >>
        /\ search_res[q] = <<"found">> /\ status[q] = 200

\* C13: in the resolve-direct-URL operation, once the downloader call
\* (--get-url) has succeeded, the insert is tried once and the request is
\* answered 200 with the same result (direct_url, youtube_url), whether the
\* insert stored the record or raised.
C13InsertNeverFails ==
    \A r \in Requests :
        (Ended(r, "--get-url", "ok") /\ pc[r] = "done") =>
            /\ status[r] = 200
            /\ body[r] = <<"direct", url[r]>>
            /\ url[r] # "None"
            /\ Cardinality(CallsOf(r, "insert_one")) = 1
            /\ inserted[r] <=> Ended(r, "insert_one", "ok")

\* C13 witness: two /stream requests for the same url, one whose insert
\* stored the record and one whose insert raised, got the same 200 result.
C13Witness ==
    \E r, q \in Requests :
        /\ path[r] = "/stream" /\ path[q] = "/stream" /\ url[r] = url[q]
        /\ Ended(r, "insert_one", "ok") /\ inserted[r]
        /\ Ended(q, "insert_one", "exception") /\ ~inserted[q]
        /\ status[r] = 200 /\ status[q] = 200
        /\ body[r] = body[q] /\ body[r] = <<"direct", url[r]>>

\* the three ways run_yt_dlp is called
YtDlpSteps == {"ytsearch", "--get-url", "--extract-audio"}

\* the statuses of the client-input errors: bad input, auth, not found,
\* validation, rate limit
ClientErrors == {400, 403, 404, 422, 429}

\* C14: a downloader call that exceeds its timeout fails the request with
\* 504 "yt-dlp timed out", a status no other failure gets (a non-zero exit
\* gets 502, and 504 is no client-input status); a relay call that exceeds
\* its timeout fails the request with a server error; in both cases the call
\* that timed out is the last external call of the request, no external step
\* is called twice, and no result or record is produced.
C14TimeoutFails ==
    \A r \in Requests :
        LET n == Len(calls[r])
        IN  /\ \A a \in DOMAIN calls[r] :
                  calls[r][a][2] = "timeout" =>
                      /\ a = n
                      /\ pc[r] = "done"
                      /\ body[r] = << >> /\ ~inserted[r]
                      /\ calls[r][a][1] \in YtDlpSteps =>
                            status[r] = 504 /\ detail[r] = "yt-dlp timed out"
                      /\ calls[r][a][1] = "sendAudio" => status[r] \in 500..599
            /\ \A a, b \in DOMAIN calls[r] : a # b => calls[r][a][1] # calls[r][b][1]
            /\ status[r] = 504 =>
                  n > 0 /\ calls[r][n][1] \in YtDlpSteps /\ calls[r][n][2] = "timeout"
            /\ (n > 0 /\ calls[r][n][1] \in YtDlpSteps /\ calls[r][n][2] = "failed") =>
                  status[r] = 502
            /\ 504 \notin ClientErrors

\* C14 witness: one request whose extraction timed out was answered 504
\* without a relay attempt, and one whose relay timed out after a successful
\* extraction was answered with a server error after one upload attempt.
C14Witness ==
    \E r, q \in Requests :
        /\ calls[r] = << <<"--extract-audio", "timeout">> >>
        /\ status[r] = 504 /\ used[r]["yt_dlp"] = 1 /\ used[r]["telegram"] = 0
        /\ calls[q] = << <<"--extract-audio", "ok">>, <<"sendAudio", "timeout">> >>
        /\ status[q] = 500 /\ used[q]["telegram"] = 1

\* C16: a download request makes at most one upload attempt, and only after
\* the extraction call succeeded and left a file in the directory; a request
\* whose extraction failed, timed out or raised makes none, and no other
\* operation uploads.
C16OneRelay ==
    \A r \in Requests :
        /\ used[r]["telegram"] <= 1
        /\ Cardinality(CallsOf(r, "sendAudio")) = used[r]["telegram"]
        /\ used[r]["telegram"] > 0 =>
              /\ path[r] = "/download"
              /\ calls[r][1] = <<"--extract-audio", "ok">>
              /\ CallsOf(r, "sendAudio") = {2}
              /\ files[r] > 0
        /\ (\E o \in {"timeout", "failed", "exception"} : Ended(r, "--extract-audio", o)) =>
              used[r]["telegram"] = 0 /\ pc[r] = "done"

\* C16 witness: one download uploaded its file once after a successful
\* extraction; another, whose extraction exited non-zero, made no upload.
C16Witness ==
    \E r, q \in Requests :
        /\ path[r] = "/download" /\ used[r]["telegram"] = 1 /\ files[r] = 1
        /\ Ended(r, "--extract-audio", "ok") /\ pc[r] = "done"
        /\ path[q] = "/download" /\ Ended(q, "--extract-audio", "failed")
        /\ used[q]["telegram"] = 0 /\ status[q] = 502

\* two requests differ in nothing but the diagnostic text that came with
\* their failure
SameButDiagnostics(r, q) ==
    /\ path[r] = path[q] /\ cred[r] = cred[q] /\ _rl[r] = _rl[q]
    /\ url[r] = url[q] /\ search_res[r] = search_res[q]
    /\ files[r] = files[q] /\ file_size[r] = file_size[q]
    /\ calls[r] = calls[q] /\ inserted[r] = inserted[q]

\* C17: two finished requests that differ only in the diagnostic text of
\* their failure (the downloader's stderr/stdout, the relay's error body, the
\* message of an unclassified exception) have the same status and the same
\* detail, and no detail is a diagnostic text.
C17DetailIndependent ==
    /\ \A r, q \in Requests :
          (pc[r] = "done" /\ pc[q] = "done" /\ SameButDiagnostics(r, q)) =>
              status[r] = status[q] /\ detail[r] = detail[q]
    /\ \A r \in Requests : detail[r] \notin Diagnostics

\* C17 witness: two requests whose downloader exited non-zero with different
\* stderr were both answered 502 with the same detail.
C17Witness ==
    \E r, q \in Requests :
        /\ SameButDiagnostics(r, q)
        /\ \E step \in YtDlpSteps : Ended(r, step, "failed")
        /\ diag[r] \in Diagnostics /\ diag[q] \in Diagnostics /\ diag[r] # diag[q]
        /\ status[r] = 502 /\ status[q] = 502
        /\ detail[r] = "yt-dlp failed" /\ detail[q] = "yt-dlp failed"

\* the external calls of request r that failed the step they belong to: a
\* downloader or relay call that timed out, exited non-zero / answered an
\* error status, or raised (the insert and the primary search provider have
\* their own fallbacks)
FailedCalls(r) ==
    {a \in DOMAIN calls[r] :
        /\ calls[r][a][1] \in {"--get-url", "--extract-audio", "sendAudio"}
        /\ calls[r][a][2] \in {"timeout", "failed", "exception"}}

\* C19: the resolve-direct-URL operation returns its result (direct_url and
\* youtube_url both set) and tries the insert only after the downloader call
\* succeeded; the download operation returns the file only after the
\* extraction and the relay both succeeded; a request in which a step failed,
\* and every request answered with an error, has no result content and no
\* persistence record.
C19NoPartialSuccess ==
    \A r \in Requests :
        /\ (path[r] = "/stream" /\ status[r] = 200) =>
              /\ Ended(r, "--get-url", "ok")
              /\ url[r] # "None"
              /\ body[r] = <<"direct", url[r]>>
        /\ used[r]["mongo"] > 0 => path[r] = "/stream" /\ Ended(r, "--get-url", "ok")
        /\ inserted[r] => used[r]["mongo"] = 1 /\ status[r] = 200
        /\ (path[r] = "/download" /\ status[r] = 200) =>
              /\ calls[r] = << <<"--extract-audio", "ok">>, <<"sendAudio", "ok">> >>
              /\ files[r] > 0
              /\ body[r] = <<"file">>
        /\ FailedCalls(r) # {} =>
              /\ pc[r] = "done" /\ status[r] >= 400
              /\ body[r] = << >> /\ ~inserted[r] /\ used[r]["mongo"] = 0
        /\ (pc[r] = "done" /\ status[r] # 200) =>
              /\ status[r] >= 400 /\ detail[r] # ""
              /\ body[r] = << >> /\ ~inserted[r]

\* C19 witness: a /stream request whose downloader call failed got an error
\* with no result and no record, and one whose downloader call succeeded got
\* the full result with its record stored.
C19Witness ==
    \E r, q \in Requests :
        /\ path[r] = "/stream" /\ Ended(r, "--get-url", "failed")
        /\ status[r] = 502 /\ body[r] = << >> /\ ~inserted[r]
        /\ path[q] = "/stream" /\ Ended(q, "--get-url", "ok")
        /\ status[q] = 200 /\ body[q] = <<"direct", url[q]>> /\ inserted[q]

\* the requests of (i, p) the limiter has admitted, whatever became of them
AdmittedOn(i, p) ==
    {r \in Requests : ip[r] = i /\ path[r] = p /\ _rl[r] = "True"}

\* the step is one in which request r runs the locked section of the limiter
LimiterStep(r) == pc[r] = "rl_lock" /\ pc'[r] # "rl_lock"

\* C20: the step that admits a request puts its clock value at the back of
\* its bucket; every later step of the request (and every step that is not
\* the limiter's) leaves the bucket table as it is, whether the request ends
\* in a success or in an error (bad input, not found, upstream failure,
\* timeout, too large, internal error); so as long as nothing is old enough
\* to be evicted, a bucket holds one timestamp per admitted request, the
\* failed ones included.
C20NoRollback ==
    [][/\ \A r \in Requests :
             (LimiterStep(r) /\ _rl'[r] = "True") =>
                 LET q == BucketOf(_buckets', ip[r], path[r])
                 IN  Len(q) > 0 /\ q[Len(q)] = now[r]
       /\ (\A r \in Requests : ~LimiterStep(r)) => _buckets' = _buckets
       /\ \A i \in Callers, p \in Paths :
             clock' <= window_seconds(p) =>
                 Len(BucketOf(_buckets', i, p)) = Cardinality(AdmittedOn(i, p)')]_vars

\* C20 witness: a request that was admitted and then failed in its handler
\* (upstream failure) still has its timestamp in the bucket, and a second
\* request of the same caller on the same route was rejected because of it.
C20Witness ==
    \E r, q \in Requests :
        /\ r # q /\ ip[r] = ip[q] /\ path[r] = path[q]
        /\ _rl[r] = "True" /\ pc[r] = "done" /\ status[r] = 502
        /\ _rl[q] = "429" /\ status[q] = 429
        /\ max_requests(path[r]) = 1
        /\ Len(BucketOf(_buckets, ip[r], path[r])) = 1

\* non-decreasing from front to back
Ordered(q) == \A a, b \in DOMAIN q : a < b => q[a] <= q[b]

\* C15: in every reachable state, under any interleaving, every bucket is
\* non-decreasing from front to back and holds at most max_requests
\* timestamps of the limiter of its route.
C15OrderedAndBounded ==
    \A k \in DOMAIN _buckets :
        /\ Ordered(_buckets[k])
        /\ Len(_buckets[k]) <= max_requests(k[2])

\* the size half of C15, which holds on its own
C15Bounded ==
    \A k \in DOMAIN _buckets : Len(_buckets[k]) <= max_requests(k[2])

\* the keys requests have run the limiter for, admitted or rejected
KeysSeen == {k \in IPs \X Paths : hist[k] # EmptyBag}

\* C18: the bucket table holds exactly the keys a request has run the
\* limiter for, admitted or rejected; a request creates the bucket of its key
\* when it is not there, and no step removes a key, so the set of keys only
\* grows, also when every earlier timestamp of a bucket has been evicted.
C18KeysOnlyGrow ==
    [][/\ DOMAIN _buckets \subseteq DOMAIN _buckets'
       /\ \A r \in Requests : Checks(r) => BucketKey(ip[r], path[r]) \in DOMAIN _buckets'
       /\ DOMAIN _buckets' = KeysSeen']_vars

\* C18 witness: two keys are in the table; on one of them a request was
\* rejected, and on the other every timestamp recorded earlier has been
\* evicted by a request admitted more than window_seconds later.
C18Witness ==
    \E k1, k2 \in DOMAIN _buckets :
        /\ k1 # k2
        /\ \E t \in 0..MaxClock : <<t, FALSE>> \in BagToSet(hist[k1])
        /\ \E t \in 0..MaxClock :
              /\ <<t, TRUE>> \in BagToSet(hist[k2])
              /\ \A a \in DOMAIN _buckets[k2] : _buckets[k2][a] > t + window_seconds(k2[2])

====
